---- MODULE Spec2Model ----
(***************************************************************************)
(* Model of backend/devices/usb/communication.go: the Communication type   *)
(* that frames JSON commands into USB HID reports (sendFrame / readFrame), *)
(* the bootloader transport (SendBootloader), SendPlain, SendEncrypt,      *)
(* maybeDBBErr and Close, run by concurrent callers against a mock         *)
(* io.ReadWriteCloser.  Bytes are the integers 0..255.                     *)
(***************************************************************************)
EXTENDS Integers, Sequences, FiniteSets, TLC

\* ------------------------------------------------------------ bounds
\* number of goroutines that call into one Communication
NumCallers == 2
\* SendPlain messages of every length 0..MaxMsgLen are framed
MaxMsgLen == 12
\* longest list of read outcomes the scripted channel is given
MaxScript == 2
\* the channel's failing Write is one of its first MaxWriteFault Writes
MaxWriteFault == 2
\* SendBootloader messages of every length 0..MaxBootLen are sent
MaxBootLen == 1

\* ------------------------------------------------- program constants
u2fHIDTypeInit == 128
u2fHIDVendorBit == 64
u2fHIDVendorFirst == u2fHIDTypeInit + u2fHIDVendorBit
hwwCMD == u2fHIDVendorFirst + 1
\* uint32(hwwCID) = 0xff000000 as binary.BigEndian writes it
hwwCID == <<255, 0, 0, 0>>
padByte == 238
initHeaderLen == 7
contHeaderLen == 5
sendLen == 4098
bootReadLen == 256

\* ------------------------------------------------------- byte helpers
Min(a, b) == IF a < b THEN a ELSE b
Max(a, b) == IF a > b THEN a ELSE b
Repeat(n, x) == [i \in 1..n |-> x]
\* bytes.Buffer.Next(n): the next n bytes, or all that are left
BufNext(buf, n) == SubSeq(buf, 1, Min(n, Len(buf)))
\* what the buffer holds after Next(n)
BufRest(buf, n) == SubSeq(buf, Min(n, Len(buf)) + 1, Len(buf))
\* binary.Write(header, binary.BigEndian, uint16(x))
BigEndian16(x) == <<(x % 65536) \div 256, x % 256>>
\* binary.Write(header, binary.BigEndian, uint8(x))
Uint8(x) == <<x % 256>>

\* ---------------------------------------------------------- sendFrame
\* faulty variant: the length is written low byte first
initHeaderLittleEndian(dataLen) ==
    hwwCID \o Uint8(hwwCMD) \o <<dataLen % 256, (dataLen \div 256) % 256>>
initHeader(dataLen) == hwwCID \o Uint8(hwwCMD) \o BigEndian16(dataLen)
\* faulty variant: the sequence byte stops at 255 instead of wrapping
contHeaderSaturating(seq) == hwwCID \o <<Min(seq, 255)>>
contHeader(seq) == hwwCID \o Uint8(seq)
\* faulty variant: the frame is padded with zero bytes
sendBufZeroPad(header, readFrom, w) ==
    LET body == BufNext(readFrom, w - Len(header))
        used == Len(header) + Len(body)
    IN  header \o body \o Repeat(Max(w - used, 0), 0)
\* the send closure: header, then as much of readFrom as fits, then 0xee
sendBuf(header, readFrom, w) ==
    LET body == BufNext(readFrom, w - Len(header))
        used == Len(header) + Len(body)
    IN  header \o body \o Repeat(Max(w - used, 0), padByte)
\* what readFrom holds after the send closure took its share
sendRest(header, readFrom, w) == BufRest(readFrom, w - Len(header))

\* ---------------------------------------------------------- readFrame
\* faulty variant: only the first byte of the channel identifier is compared
cidMatchesFirstByte(read) == read[1] = 255
cidMatches(read) == read[1] = 255 /\ read[2] = 0 /\ read[3] = 0 /\ read[4] = 0
cmdMatches(read) == read[5] = hwwCMD
declaredLen(read) == read[6] * 256 + read[7]
\* idx := len(read) - 7, where read is the usbReadReportSize buffer
initIdx(r, readLen) == r - initHeaderLen
\* idx += readLen - 5
contIdx(idx, readLen) == idx + (readLen - contHeaderLen)

\* --------------------------------------------------------- JSON values
\* encoding/json values as tagged records; an object maps keys to values
JStr(s) == [t |-> "str", s |-> s]
JNum(n) == [t |-> "num", n |-> n]
JNull == [t |-> "null"]
JBool(b) == [t |-> "bool", b |-> b]
JArr(a) == [t |-> "arr", a |-> a]
JObj(m) == [t |-> "obj", m |-> m]
Invalid == [t |-> "invalid"]
hasKey(j, k) == k \in DOMAIN j.m

\* results of a call
Nil == [k |-> "none"]
Ok(v) == [k |-> "ok", v |-> v]
Err(e) == [k |-> "err", e |-> e]
DBBErr(message, code) == [k |-> "err", e |-> "dbb", message |-> message, code |-> code]
\* errp.WithMessage(err, message): the error wrapped, its cause kept
WithMessage(err, message) == [k |-> "err", e |-> message, cause |-> err]
\* errors.Cause(err)
Cause(err) == IF "cause" \in DOMAIN err THEN err.cause ELSE err
Panicked == [k |-> "panic"]

\* maybeDBBErr: Nil, or the error the reply object stands for
maybeDBBErr(jsonResult) ==
    IF hasKey(jsonResult, "error") /\ jsonResult.m["error"].t = "obj"
    THEN LET errMap == jsonResult.m["error"]
         IN  IF ~(hasKey(errMap, "message") /\ errMap.m["message"].t = "str")
             THEN Err("Unexpected reply")
             ELSE IF ~(hasKey(errMap, "code") /\ errMap.m["code"].t = "num")
             THEN Err("Unexpected reply")
             ELSE DBBErr(errMap.m["message"].s, errMap.m["code"].n)
    ELSE Nil

\* the ASCII bytes r with unicode.IsSpace(r) || r == 0
spaceOrNul == {0, 9, 10, 11, 12, 13, 32}
\* b up to and including its last byte that is not in cutset
trimRight(b, cutset) ==
    SubSeq(b, 1, CHOOSE n \in 0..Len(b) :
                    /\ n = 0 \/ b[n] \notin cutset
                    /\ \A j \in (n + 1)..Len(b) : b[j] \in cutset)
\* bytes.TrimRightFunc(reply, IsSpace or NUL)
trimReply(reply) == trimRight(reply, spaceOrNul)
\* faulty variant: only NUL bytes are cut
trimBootNulOnly(read) == trimRight(read, {0})
\* bytes.TrimRight(read, "\x00\t\r\n")
trimBoot(read) == trimRight(read, {0, 9, 13, 10})

\* what json.Unmarshal into a map can make of a non-empty reply
JsonReplies ==
    { Invalid,
      JObj(<<>>),
      JObj([ping |-> JStr("x")]),
      JObj([error |-> JObj([code |-> JNum(101), message |-> JStr("x")])]),
      JObj([error |-> JObj([message |-> JStr("x")])]),
      JObj([error |-> JObj([code |-> JNum(101)])]),
      JObj([error |-> JObj([code |-> JStr("101"), message |-> JStr("x")])]),
      JObj([error |-> JStr("x")]),
      JObj([error |-> JNull]),
      JObj([ciphertext |-> JStr("c")]),
      JObj([ciphertext |-> JNum(1)]) }
\* a JSON object is written { ... }, with white space allowed in front
RECURSIVE skipSpace(_)
skipSpace(text) ==
    IF Len(text) > 0 /\ text[1] \in {9, 10, 13, 32} THEN skipSpace(Tail(text)) ELSE text
looksLikeObject(text) ==
    LET t == skipSpace(text) IN Len(t) >= 2 /\ t[1] = 123 /\ t[Len(t)] = 125
\* json.Unmarshal(reply, &jsonResult): what an object decodes to depends on
\* the bytes between its braces; the literal null leaves the map empty; no
\* other text decodes into a map
Unmarshal(reply) ==
    IF looksLikeObject(reply) THEN JsonReplies
    ELSE IF skipSpace(reply) = <<110, 117, 108, 108>> THEN {JObj(<<>>)}
    ELSE {Invalid}
\* SendPlain after readFrame: logCensoredCmd, json.Unmarshal, maybeDBBErr
plainResult(debug, j) ==
    IF j = Invalid THEN (IF debug THEN Err("Failed to unmarshal message")
                                  ELSE Err("Failed to unmarshal reply"))
    ELSE IF maybeDBBErr(j) # Nil THEN maybeDBBErr(j)
    ELSE Ok(j)

\* ------------------------------------------------------------- logging
\* the placeholder hideValues writes
hidden == JStr("****")
\* hideValues: a value that is a map is hidden key by key, any other value
\* (an array too) is replaced by the placeholder
RECURSIVE hideValues(_)
hideValues(cmd) ==
    JObj([k \in DOMAIN cmd.m |->
            IF cmd.m[k].t = "obj" THEN hideValues(cmd.m[k]) ELSE hidden])
\* logCensoredCmd returns an error: the level is debug and msg is no object
logCensoredErr(debug, cmd) == debug /\ cmd = Invalid
\* the log after logCensoredCmd(log, msg, receiving), cmd being msg decoded
logCensoredCmd(lg, debug, cmd, receiving) ==
    IF debug /\ cmd # Invalid
    THEN Append(lg, [level |-> "info",
                     text |-> IF receiving THEN "Receiving message" ELSE "Sending message",
                     msg |-> hideValues(cmd)])
    ELSE lg
\* log.WithField("msg", msg).Debug(text): written at debug level only
logDebug(lg, debug, text, msg) ==
    IF debug THEN Append(lg, [level |-> "debug", text |-> text, msg |-> msg]) ELSE lg

\* -------------------------------------------------------------- state
Callers == 1..NumCallers

VARIABLES
    cfg,     \* usbWriteReportSize w, usbReadReportSize r, GOOS, log level, channel kind
    req,     \* per caller: the call it makes and its arguments
    mutex,   \* communication.mutex: 0 when free, else the caller holding it
    closed,  \* device.Close() was called
    devQ,    \* the channel's pending read outcomes, oldest first
    wFail,   \* the channel fails its wFail-th next Write (0: none)
    trace,   \* every Write, Read and Close issued on the channel, in order
    log,     \* communication.log: the entries written, in order
    pc,      \* per caller: where it is in its call
    loc,     \* per caller: the local variables of its call
    res      \* per caller: what its call returned

vars == <<cfg, req, mutex, closed, devQ, wFail, trace, log, pc, loc, res>>

\* a command object for messages that are JSON text
pingCmd == JObj([ping |-> JStr("")])
NoReq == [op |-> "none", msg |-> <<>>, json |-> FALSE, cmd |-> pingCmd]
\* json.Unmarshal of the message a caller passes: its object, or no object
cmdOf(rq) == IF rq.json THEN rq.cmd ELSE Invalid
LocInit(rq) ==
    [msg |-> rq.msg, readBuffer |-> <<>>, seq |-> 0, data |-> <<>>, dataLen |-> 0,
     idx |-> 0, jsonResult |-> Invalid, mapped |-> Invalid, paddedMsg |-> <<>>,
     written |-> 0, read |-> <<>>]

\* ------------------------------------------------- the mock channel
ErrRead == <<-1>>
WriteFails == closed \/ wFail = 1
ReadOutcome ==
    IF closed \/ devQ = <<>> \/ Head(devQ) = ErrRead
    THEN [ok |-> FALSE, b |-> <<>>]
    ELSE [ok |-> TRUE, b |-> BufNext(Head(devQ), cfg.r)]
\* device.Write(b); at is the position of the frame within the message
DevWrite(c, b, at) ==
    /\ trace' = Append(trace, [c |-> c, op |-> "W", ok |-> ~WriteFails, b |-> b, at |-> at])
    /\ wFail' = IF wFail > 0 /\ ~closed THEN wFail - 1 ELSE wFail
    /\ devQ' = IF cfg.echo /\ ~WriteFails THEN Append(devQ, b) ELSE devQ
\* device.Read(read)
DevRead(c) ==
    /\ trace' = Append(trace, [c |-> c, op |-> "R", ok |-> ReadOutcome.ok,
                               b |-> ReadOutcome.b, at |-> 0])
    /\ devQ' = IF closed \/ devQ = <<>> THEN devQ ELSE Tail(devQ)
    /\ UNCHANGED wFail

\* ------------------------------------------------------------ SendPlain
\* faulty variant: Lock() returns although the mutex is held
lockFreeAlways == TRUE
\* mutex.Lock() returns only when the mutex is free
lockFree == mutex = 0
\* faulty variant: the send closure drops the error of device.Write
sendErrDropped(writeFailed) == FALSE
\* the send closure returns an error exactly when device.Write did
sendErr(writeFailed) == writeFailed

\* faulty variant: the mutex is unlocked on the successful return only
PlainReturnLeak(c, r) ==
    /\ res' = [res EXCEPT ![c] = r]
    /\ pc' = [pc EXCEPT ![c] = IF req[c].op = "SendEncrypt" THEN "encReply" ELSE "done"]
    /\ mutex' = IF r.k = "err" THEN mutex ELSE 0
\* return from SendPlain: the deferred mutex.Unlock() runs
PlainReturn(c, r) ==
    /\ res' = [res EXCEPT ![c] = r]
    /\ pc' = [pc EXCEPT ![c] = IF req[c].op = "SendEncrypt" THEN "encReply" ELSE "done"]
    /\ mutex' = 0

\* the message SendPlain is given, decoded: the base64 text SendEncrypt
\* passes is no JSON object
plainCmd(c) == IF req[c].op = "SendEncrypt" THEN Invalid ELSE cmdOf(req[c])

\* SendPlain before it takes the mutex: the outgoing command is logged
SendPlain(c) ==
    /\ pc[c] = "SendPlain"
    /\ log' = IF logCensoredErr(cfg.debug, plainCmd(c))
              THEN logDebug(log, cfg.debug, "Sending (encrypted) command", loc[c].msg)
              ELSE logCensoredCmd(log, cfg.debug, plainCmd(c), FALSE)
    /\ pc' = [pc EXCEPT ![c] = "Lock"]
    /\ UNCHANGED <<cfg, req, mutex, closed, devQ, wFail, trace, loc, res>>

\* communication.mutex.Lock() in SendPlain
Lock(c) ==
    /\ pc[c] = "Lock"
    /\ lockFree
    /\ mutex' = c
    /\ pc' = [pc EXCEPT ![c] = "sendFrame"]
    /\ UNCHANGED <<cfg, req, closed, log, devQ, wFail, trace, loc, res>>

\* faulty variant: an empty message is framed like any other
noDataNever(dataLen) == FALSE
\* dataLen == 0: sendFrame returns nil at once
noData(dataLen) == dataLen = 0

\* sendFrame up to and including the init frame
SendFrame(c) ==
    /\ pc[c] = "sendFrame"
    /\ LET msg == loc[c].msg
           header == initHeader(Len(msg))
           rest == sendRest(header, msg, cfg.w)
       IN  IF noData(Len(msg))
           THEN /\ pc' = [pc EXCEPT ![c] = "readFrame"]
                /\ UNCHANGED <<trace, devQ, wFail, loc, res, mutex>>
           ELSE /\ DevWrite(c, sendBuf(header, msg, cfg.w), 0)
                /\ IF sendErr(WriteFails)
                   THEN PlainReturn(c, Err("Failed to send message")) /\ UNCHANGED loc
                   ELSE /\ loc' = [loc EXCEPT ![c].readBuffer = rest, ![c].seq = 0]
                        /\ pc' = [pc EXCEPT ![c] = IF Len(rest) > 0 THEN "sendFrameCont"
                                                                  ELSE "readFrame"]
                        /\ UNCHANGED <<res, mutex>>
    /\ UNCHANGED <<cfg, req, closed, log>>

\* one turn of sendFrame's loop: a continuation frame
SendFrameCont(c) ==
    /\ pc[c] = "sendFrameCont"
    /\ LET header == contHeader(loc[c].seq)
           rest == sendRest(header, loc[c].readBuffer, cfg.w)
       IN  /\ DevWrite(c, sendBuf(header, loc[c].readBuffer, cfg.w), loc[c].seq + 1)
           /\ IF sendErr(WriteFails)
              THEN PlainReturn(c, Err("Failed to send message")) /\ UNCHANGED loc
              ELSE /\ loc' = [loc EXCEPT ![c].readBuffer = rest, ![c].seq = @ + 1]
                   /\ pc' = [pc EXCEPT ![c] = IF Len(rest) > 0 THEN "sendFrameCont"
                                                             ELSE "readFrame"]
                   /\ UNCHANGED <<res, mutex>>
    /\ UNCHANGED <<cfg, req, closed, log>>

\* why readFrame rejects its first read, "" when it does not
initReadErr(ok, read) ==
    IF ~ok THEN "read"
    ELSE IF Len(read) < initHeaderLen THEN "expected minimum read length of 7"
    ELSE IF ~cidMatches(read) THEN "USB command ID mismatch"
    ELSE IF ~cmdMatches(read) THEN "USB command frame mismatch"
    ELSE ""
\* why readFrame rejects a later read, "" when it does not
contReadErr(ok, read) ==
    IF ~ok THEN "read"
    ELSE IF Len(read) < contHeaderLen THEN "expected minimum read length of 7"
    ELSE ""

\* readFrame up to its loop
ReadFrame(c) ==
    /\ pc[c] = "readFrame"
    /\ DevRead(c)
    /\ LET read == ReadOutcome.b
           e == initReadErr(ReadOutcome.ok, read)
           idx == initIdx(cfg.r, Len(read))
       IN  IF e # ""
           THEN PlainReturn(c, Err(e)) /\ UNCHANGED loc
           ELSE /\ loc' = [loc EXCEPT ![c].data = SubSeq(read, initHeaderLen + 1, Len(read)),
                                      ![c].dataLen = declaredLen(read),
                                      ![c].idx = idx]
                /\ pc' = [pc EXCEPT ![c] = IF idx < declaredLen(read) THEN "readFrameCont"
                                                                     ELSE "reply"]
                /\ UNCHANGED <<res, mutex>>
    /\ UNCHANGED <<cfg, req, closed, log>>

\* one turn of readFrame's loop
ReadFrameCont(c) ==
    /\ pc[c] = "readFrameCont"
    /\ DevRead(c)
    /\ LET read == ReadOutcome.b
           e == contReadErr(ReadOutcome.ok, read)
           idx == contIdx(loc[c].idx, Len(read))
       IN  IF e # ""
           THEN PlainReturn(c, Err(e)) /\ UNCHANGED loc
           ELSE /\ loc' = [loc EXCEPT ![c].data = @ \o SubSeq(read, contHeaderLen + 1, Len(read)),
                                      ![c].idx = idx]
                /\ pc' = [pc EXCEPT ![c] = IF idx < loc[c].dataLen THEN "readFrameCont"
                                                                  ELSE "reply"]
                /\ UNCHANGED <<res, mutex>>
    /\ UNCHANGED <<cfg, req, closed, log>>

\* SendPlain after readFrame returned the reply
Reply(c) ==
    /\ pc[c] = "reply"
    /\ \E j \in Unmarshal(trimReply(loc[c].data)) :
          /\ loc' = [loc EXCEPT ![c].jsonResult = j, ![c].mapped = j]
          /\ log' = logCensoredCmd(log, cfg.debug, j, TRUE)
          /\ PlainReturn(c, plainResult(cfg.debug, j))
    /\ UNCHANGED <<cfg, req, closed, devQ, wFail, trace>>

\* ------------------------------------------------------- SendBootloader
\* faulty variant: a message of exactly sendLen bytes is refused too
tooLongOffByOne(msg) == Len(msg) >= sendLen
tooLong(msg) == Len(msg) > sendLen
\* faulty variant: one zero byte too many
padMsgOneMore(msg) == msg \o Repeat(sendLen - Len(msg) + 1, 0)
\* paddedMsg: msg, then sendLen-len(msg) zero bytes
padMsg(msg) == msg \o Repeat(sendLen - Len(msg), 0)
\* the chunk as written: with the 0 report ID in front unless on windows
reportChunk(chunk, windows) == IF windows THEN chunk ELSE <<0>> \o chunk

\* return from SendBootloader or SendEncrypt; a held mutex is unlocked
Return(c, r) ==
    /\ res' = [res EXCEPT ![c] = r]
    /\ pc' = [pc EXCEPT ![c] = "done"]
    /\ mutex' = IF mutex = c THEN 0 ELSE mutex

SendBootloader(c) ==
    /\ pc[c] = "SendBootloader"
    /\ lockFree
    /\ mutex' = c
    /\ pc' = [pc EXCEPT ![c] = "blCheck"]
    /\ UNCHANGED <<cfg, req, closed, log, devQ, wFail, trace, loc, res>>

\* the length check and the padding
BlCheck(c) ==
    /\ pc[c] = "blCheck"
    /\ IF tooLong(loc[c].msg)
       THEN Return(c, Panicked) /\ UNCHANGED loc
       ELSE /\ loc' = [loc EXCEPT ![c].paddedMsg = padMsg(loc[c].msg), ![c].written = 0]
            /\ pc' = [pc EXCEPT ![c] = "blWrite"]
            /\ UNCHANGED <<res, mutex>>
    /\ UNCHANGED <<cfg, req, closed, log, devQ, wFail, trace>>

\* one turn of the write loop
BlWrite(c) ==
    /\ pc[c] = "blWrite"
    /\ LET chunk == BufNext(loc[c].paddedMsg, cfg.w)
           written == loc[c].written + Len(chunk)
       IN  /\ DevWrite(c, reportChunk(chunk, cfg.windows), loc[c].written)
           /\ IF WriteFails
              THEN Return(c, Err("write")) /\ UNCHANGED loc
              ELSE /\ loc' = [loc EXCEPT ![c].paddedMsg = BufRest(@, cfg.w),
                                         ![c].written = written]
                   /\ pc' = [pc EXCEPT ![c] = IF written < sendLen THEN "blWrite"
                                                                  ELSE "blRead"]
                   /\ UNCHANGED <<res, mutex>>
    /\ UNCHANGED <<cfg, req, closed, log>>

\* one turn of the read loop, and the return after the last one
BlRead(c) ==
    /\ pc[c] = "blRead"
    /\ DevRead(c)
    /\ LET read == loc[c].read \o ReadOutcome.b
       IN  IF ~ReadOutcome.ok
           THEN Return(c, Err("read")) /\ UNCHANGED loc
           ELSE /\ loc' = [loc EXCEPT ![c].read = read]
                /\ IF Len(read) < bootReadLen
                   THEN UNCHANGED <<pc, res, mutex>>
                   ELSE Return(c, Ok(trimBoot(read)))
    /\ UNCHANGED <<cfg, req, closed, log>>

\* ---------------------------------------------------------- SendEncrypt
\* len(crypto.Encrypt(msg)): IV, the padded blocks, MAC
cipherLen(n) == 16 + 16 * (n \div 16 + 1) + 32
\* len(base64.StdEncoding.EncodeToString(b)) for len(b) = n
base64Len(n) == 4 * ((n + 2) \div 3)
\* the base64 text of the cipher text of msg
cipherText(msg) == [i \in 1..base64Len(cipherLen(Len(msg))) |-> 65 + ((i + Len(msg)) % 26)]

\* SendEncrypt up to its call of SendPlain
SendEncrypt(c) ==
    /\ pc[c] = "SendEncrypt"
    /\ log' = logCensoredCmd(log, cfg.debug, cmdOf(req[c]), FALSE)
    /\ IF logCensoredErr(cfg.debug, cmdOf(req[c]))
       THEN Return(c, Err("Invalid JSON passed. Continuing anyway")) /\ UNCHANGED loc
       ELSE \E encrypted \in BOOLEAN :
               IF ~encrypted
               THEN Return(c, Err("Failed to encrypt command")) /\ UNCHANGED loc
               ELSE /\ loc' = [loc EXCEPT ![c].msg = cipherText(req[c].msg)]
                    /\ pc' = [pc EXCEPT ![c] = "SendPlain"]
                    /\ UNCHANGED <<res, mutex>>
    /\ UNCHANGED <<cfg, req, closed, devQ, wFail, trace>>

hasCipherText(j) == hasKey(j, "ciphertext") /\ j.m["ciphertext"].t = "str"
\* SendEncrypt after SendPlain returned
EncReply(c) ==
    /\ pc[c] = "encReply"
    /\ IF res[c].k = "err"
       THEN /\ Return(c, WithMessage(res[c], "Failed to send cipher text"))
            /\ UNCHANGED <<loc, log>>
       ELSE IF hasCipherText(res[c].v)
       THEN \E step \in {"Failed to decode reply", "Failed to decrypt reply", "ok"},
               j \in JsonReplies :
               IF step # "ok"
               THEN /\ Return(c, Err(step))
                    /\ loc' = [loc EXCEPT ![c].mapped = Invalid]
                    /\ UNCHANGED log
               ELSE /\ Return(c, plainResult(cfg.debug, j))
                    /\ loc' = [loc EXCEPT ![c].jsonResult = j, ![c].mapped = j]
                    /\ log' = logCensoredCmd(log, cfg.debug, j, TRUE)
       ELSE /\ Return(c, IF maybeDBBErr(res[c].v) # Nil THEN maybeDBBErr(res[c].v)
                                                      ELSE Ok(res[c].v))
            /\ UNCHANGED <<loc, log>>
    /\ UNCHANGED <<cfg, req, closed, devQ, wFail, trace>>

\* ---------------------------------------------------------------- Close
\* device.Close(), called without the mutex; it is recorded in the trace as
\* an operation of no caller
Close ==
    /\ ~closed
    /\ closed' = TRUE
    /\ trace' = Append(trace, [c |-> 0, op |-> "C", ok |-> TRUE, b |-> <<>>, at |-> 0])
    /\ UNCHANGED <<cfg, req, mutex, log, devQ, wFail, pc, loc, res>>

\* ------------------------------------------------ inputs and channels
\* a message of n bytes, lower-case letters
Msg(n) == [i \in 1..n |-> 97 + (i % 26)]
\* the shortest message that needs more than 256 continuation frames
LongLen(w) == (w - initHeaderLen) + 256 * (w - contHeaderLen) + 1
\* all lists of at most n elements of S
RECURSIVE SeqsUpTo(_, _)
SeqsUpTo(S, n) ==
    IF n = 0 THEN {<<>>}
    ELSE LET shorter == SeqsUpTo(S, n - 1)
         IN  shorter \cup {Append(q, x) : q \in {t \in shorter : Len(t) = n - 1}, x \in S}
\* the first n bytes of an init frame the device sends
devInit(cid, cmd, len, n) ==
    SubSeq(cid \o <<cmd>> \o BigEndian16(len) \o Repeat(n, 66), 1, n)
\* the first n bytes of a continuation frame the device sends
devCont(cid, seq, n) == SubSeq(cid \o <<seq>> \o Repeat(n, 67), 1, n)
\* what a device may answer one Read of r bytes with
DevFrames(r) ==
    { devInit(hwwCID, hwwCMD, 0, r),
      devInit(hwwCID, hwwCMD, 1, r),
      devInit(hwwCID, hwwCMD, 1, initHeaderLen),
      devInit(hwwCID, hwwCMD, r - initHeaderLen + 2, r),
      devInit(hwwCID, hwwCMD, r - initHeaderLen + 2, r - 1),
      devInit(<<254, 0, 0, 0>>, hwwCMD, 1, r),
      devInit(<<255, 1, 0, 0>>, hwwCMD, 1, r),
      devInit(<<255, 0, 1, 0>>, hwwCMD, 1, r),
      devInit(<<255, 0, 0, 1>>, hwwCMD, 1, r),
      devInit(hwwCID, u2fHIDTypeInit + 1, 1, r),
      devInit(hwwCID, hwwCMD, 1, initHeaderLen - 1),
      devCont(hwwCID, 0, r),
      devCont(hwwCID, 1, r),
      devCont(<<0, 0, 0, 1>>, 0, r),
      devCont(hwwCID, 0, contHeaderLen),
      devCont(hwwCID, 0, contHeaderLen - 1),
      ErrRead }

OneCall(rq) == [c \in Callers |-> IF c = 1 THEN rq ELSE NoReq]
InitCalls ==
    /\ mutex = 0
    /\ closed = FALSE
    /\ trace = <<>>
    /\ log = <<>>
    /\ pc = [c \in Callers |-> IF req[c].op = "none" THEN "done" ELSE req[c].op]
    /\ loc = [c \in Callers |-> LocInit(req[c])]
    /\ res = [c \in Callers |-> Nil]

\* ---------------------------------------------- the framing codec alone
\* one SendPlain call; the channel either hands back the frames written to
\* it (echo) or answers from a script
CodecSizes == {8, 9, 64}
\* a device that lacks one payload byte after its init frame and goes on
\* answering with continuation frames of the bare 5-byte header
stallScript(r) ==
    <<devInit(hwwCID, hwwCMD, r - initHeaderLen + 1, r)>>
        \o Repeat(r - initHeaderLen + 3, devCont(hwwCID, 0, contHeaderLen))
InitCodec ==
    /\ \E s \in CodecSizes, e \in BOOLEAN :
          cfg = [w |-> s, r |-> s, windows |-> FALSE, debug |-> FALSE, echo |-> e]
    /\ IF cfg.echo
       THEN /\ \E n \in (0..MaxMsgLen) \cup {LongLen(cfg.w)} :
                  req = OneCall([op |-> "SendPlain", msg |-> Msg(n), json |-> TRUE, cmd |-> pingCmd])
            /\ devQ = <<>>
            /\ wFail \in 0..MaxWriteFault
       ELSE /\ req = OneCall([op |-> "SendPlain", msg |-> Msg(1), json |-> TRUE, cmd |-> pingCmd])
            /\ devQ \in SeqsUpTo(DevFrames(cfg.r), MaxScript) \cup {stallScript(cfg.r)}
            /\ wFail = 0
    /\ InitCalls
NextCodec ==
    \E c \in Callers :
        \/ SendPlain(c)
        \/ Lock(c)
        \/ SendFrame(c)
        \/ SendFrameCont(c)
        \/ ReadFrame(c)
        \/ ReadFrameCont(c)
        \/ Reply(c)
SpecCodec == InitCodec /\ [][NextCodec]_vars

\* ------------------------------------------------- the bootloader alone
\* one SendBootloader call on either platform; the smallest write size, 1,
\* is run for one message only
BootSizes == {33, 64, 1000, sendLen - 1, sendLen, sendLen + 1}
BootReadSizes == {100, 128, 300}
BootLens == (0..MaxBootLen) \cup {sendLen - 1, sendLen, sendLen + 1}
\* n bytes of a device's answer to a bootloader request: text, then tab, CR
\* and LF, then NULs
bootReply(r, n) ==
    [i \in 1..n |-> IF i < (3 * r) \div 4 THEN 48 + (i % 10)
                    ELSE IF i < (3 * r) \div 4 + 3 THEN <<9, 13, 10>>[i - (3 * r) \div 4 + 1]
                    ELSE 0]
\* enough full reads to make up the response
bootAnswer(r) == Repeat(bootReadLen \div r + 1, bootReply(r, r))
BootScripts(r) ==
    SeqsUpTo({bootReply(r, r), bootReply(r, r \div 2), <<>>, ErrRead}, MaxScript + 1)
InitBoot ==
    /\ \/ /\ \E s \in BootSizes, win \in BOOLEAN :
                cfg = [w |-> s, r |-> 128, windows |-> win, debug |-> FALSE, echo |-> FALSE]
          /\ \E n \in BootLens :
                req = OneCall([op |-> "SendBootloader", msg |-> Msg(n), json |-> FALSE, cmd |-> pingCmd])
          /\ devQ = bootAnswer(cfg.r)
          /\ wFail \in 0..MaxWriteFault
       \/ /\ \E s \in BootReadSizes :
                cfg = [w |-> sendLen, r |-> s, windows |-> FALSE, debug |-> FALSE, echo |-> FALSE]
          /\ req = OneCall([op |-> "SendBootloader", msg |-> Msg(1), json |-> FALSE, cmd |-> pingCmd])
          /\ devQ \in BootScripts(cfg.r)
          /\ wFail = 0
       \/ /\ cfg = [w |-> 1, r |-> 128, windows |-> FALSE, debug |-> FALSE, echo |-> FALSE]
          /\ req = OneCall([op |-> "SendBootloader", msg |-> Msg(MaxBootLen), json |-> FALSE, cmd |-> pingCmd])
          /\ devQ = bootAnswer(cfg.r)
          /\ wFail = 0
    /\ InitCalls
NextBoot ==
    \E c \in Callers :
        \/ SendBootloader(c)
        \/ BlCheck(c)
        \/ BlWrite(c)
        \/ BlRead(c)
SpecBoot == InitBoot /\ [][NextBoot]_vars

\* ------------------------------------------------- the redaction alone
\* one SendPlain call with debug logging on; its message is the JSON text
\* of an object of up to two levels with every kind of value
Leaves == {JNull, JBool(TRUE), JNum(1), JStr("secret")}
Arrays == {JArr(<<>>), JArr(<<JNum(1), JStr("secret")>>)}
ObjectsOver(keys, values) ==
    {JObj(f) : f \in UNION {[d -> values] : d \in SUBSET keys}}
Trees ==
    ObjectsOver({"a", "c"},
                Leaves \cup Arrays \cup ObjectsOver({"b"}, Leaves \cup Arrays))
InitRedact ==
    /\ cfg = [w |-> 64, r |-> 64, windows |-> FALSE, debug |-> TRUE, echo |-> FALSE]
    /\ \E t \in Trees :
          req = OneCall([op |-> "SendPlain", msg |-> Msg(1), json |-> TRUE, cmd |-> t])
    /\ devQ = <<SubSeq(initHeader(4) \o <<123, 34, 34, 125>> \o Repeat(cfg.r, 0), 1, cfg.r)>>
    /\ wFail = 0
    /\ InitCalls
NextRedact ==
    \E c \in Callers :
        \/ SendPlain(c)
        \/ Lock(c)
        \/ SendFrame(c)
        \/ ReadFrame(c)
        \/ Reply(c)
SpecRedact == InitRedact /\ [][NextRedact]_vars

\* ------------------------------------------------------ all the calls
\* concurrent callers of SendPlain, SendEncrypt and SendBootloader
Requests ==
    << [op |-> "SendPlain", msg |-> Msg(3), json |-> TRUE, cmd |-> pingCmd],
       [op |-> "SendEncrypt", msg |-> Msg(3), json |-> FALSE, cmd |-> pingCmd],
       [op |-> "SendBootloader", msg |-> Msg(2), json |-> FALSE, cmd |-> pingCmd],
       [op |-> "SendBootloader", msg |-> Msg(sendLen + 1), json |-> FALSE, cmd |-> pingCmd] >>
\* the callers are interchangeable: their requests are listed in order
RequestLists ==
    { [c \in Callers |-> Requests[f[c]]] :
        f \in {g \in [Callers -> 1..Len(Requests)] :
                  \A c \in Callers : c + 1 \in Callers => g[c] <= g[c + 1]} }
\* an init frame whose payload is JSON text: {, quotes, }, NULs
devJSON(len, n) ==
    SubSeq(initHeader(len) \o <<123>> \o Repeat(len - 2, 34) \o <<125>> \o Repeat(n, 0), 1, n)
WriteSize == 64
ReadSize == 64
SharedScripts(r) ==
    LET good == devInit(hwwCID, hwwCMD, 2, r)
        long == devInit(hwwCID, hwwCMD, r, r)
        cont == devCont(hwwCID, 0, r)
    IN  { Repeat(4 * NumCallers, good),
          [i \in 1..(4 * NumCallers) |-> IF i % 2 = 1 THEN long ELSE cont],
          <<good, ErrRead>> \o Repeat(4 * NumCallers, good) }
SingleFrames(r) ==
    { devJSON(4, r),
      devInit(hwwCID, hwwCMD, r, r),
      devInit(<<255, 0, 0, 1>>, hwwCMD, 4, r),
      devCont(hwwCID, 0, r),
      devCont(hwwCID, 0, contHeaderLen - 1),
      ErrRead }
Init ==
    /\ \E d \in BOOLEAN :
          cfg = [w |-> WriteSize, r |-> ReadSize, windows |-> FALSE, debug |-> d, echo |-> FALSE]
    /\ \/ /\ req \in RequestLists
          /\ devQ \in SharedScripts(cfg.r)
       \/ /\ \E i \in 1..(Len(Requests) - 1), j \in BOOLEAN :
                req = OneCall([Requests[i] EXCEPT !.json = j])
          /\ devQ \in SeqsUpTo(SingleFrames(cfg.r), MaxScript)
    /\ wFail \in 0..MaxWriteFault
    /\ InitCalls
Next ==
    \E c \in Callers :
        \/ SendPlain(c)
        \/ Lock(c)
        \/ SendFrame(c)
        \/ SendFrameCont(c)
        \/ ReadFrame(c)
        \/ ReadFrameCont(c)
        \/ Reply(c)
        \/ SendEncrypt(c)
        \/ EncReply(c)
        \/ SendBootloader(c)
        \/ BlCheck(c)
        \/ BlWrite(c)
        \/ BlRead(c)
Spec == Init /\ [][Next]_vars

\* ------------------------------------------- the calls, fairly scheduled
\* concurrent callers of SendPlain and SendBootloader on a device that also
\* answers with a JSON object; with this write size a bootloader request is
\* three chunks and the SendPlain message two frames
FairWriteSize == sendLen \div 2 - 1
FairRequests ==
    << [op |-> "SendPlain", msg |-> Msg(FairWriteSize), json |-> TRUE, cmd |-> pingCmd],
       [op |-> "SendBootloader", msg |-> Msg(2), json |-> FALSE, cmd |-> pingCmd],
       [op |-> "SendBootloader", msg |-> Msg(sendLen + 1), json |-> FALSE, cmd |-> pingCmd] >>
FairRequestLists ==
    { [c \in Callers |-> FairRequests[f[c]]] :
        f \in {g \in [Callers -> 1..Len(FairRequests)] :
                  \A c \in Callers : c + 1 \in Callers => g[c] <= g[c + 1]} }
\* a JSON object, then a frame of the wrong command, then short replies
FairScript(r) ==
    <<devJSON(4, r), devCont(hwwCID, 0, r)>>
        \o Repeat(4 * NumCallers, devInit(hwwCID, hwwCMD, 2, r))
InitFair ==
    /\ cfg = [w |-> FairWriteSize, r |-> ReadSize, windows |-> FALSE, debug |-> FALSE, echo |-> FALSE]
    /\ req \in FairRequestLists
    /\ \/ /\ devQ \in SharedScripts(cfg.r) \cup {FairScript(cfg.r)}
          /\ wFail = 0
       \/ /\ devQ = FairScript(cfg.r)
          /\ wFail = MaxWriteFault
    /\ InitCalls
\* the steps of one caller
Call(c) ==
    \/ SendPlain(c)
    \/ Lock(c)
    \/ SendFrame(c)
    \/ SendFrameCont(c)
    \/ ReadFrame(c)
    \/ ReadFrameCont(c)
    \/ Reply(c)
    \/ SendBootloader(c)
    \/ BlCheck(c)
    \/ BlWrite(c)
    \/ BlRead(c)
NextFair == \E c \in Callers : Call(c)
\* every goroutine that can take a step eventually takes one; the channel
\* answers every Write and Read
SpecFair == InitFair /\ [][NextFair]_vars /\ \A c \in Callers : WF_vars(Call(c))

\* =============================================================== claims
writesOf(c) == SelectSeq(trace, LAMBDA e : e.c = c /\ e.op = "W")
readsOf(c) == SelectSeq(trace, LAMBDA e : e.c = c /\ e.op = "R")
allWritesOk(c) == \A i \in 1..Len(writesOf(c)) : writesOf(c)[i].ok
frameErrors ==
    {"read", "expected minimum read length of 7", "USB command ID mismatch",
     "USB command frame mismatch"}
\* readFrame returned a payload to SendPlain
readFrameReturned(c) ==
    \/ pc[c] = "reply"
    \/ pc[c] \in {"done", "encReply"} /\ ~(res[c].k = "err" /\ res[c].e \in frameErrors)
                                      /\ res[c] # Err("Failed to send message")
\* readFrame ended (with a payload or an error) for a call that got to it
readFrameEnded(c) ==
    /\ pc[c] \in {"reply", "done", "encReply"}
    /\ res[c] # Err("Failed to send message")
RECURSIVE totalLen(_, _, _)
\* the bytes of operations lo..hi of a list of channel operations
totalLen(ops, lo, hi) ==
    IF lo > hi THEN 0
    ELSE IF lo = hi THEN Len(ops[lo].b)
    ELSE LET mid == (lo + hi) \div 2
         IN  totalLen(ops, lo, mid) + totalLen(ops, mid + 1, hi)
\* payload bytes the reads of a call carried: readLen-7, then readLen-5 each
received(rs) == totalLen(rs, 1, Len(rs)) - 7 - 5 * (Len(rs) - 1)

\* C2: round trip - when the channel hands readFrame the frames sendFrame
\* wrote for a payload (every Write succeeded), readFrame returns exactly
\* that payload: nothing missing, nothing appended, also when it is empty.
C2_RoundTrip ==
    \A c \in Callers :
        (cfg.echo /\ req[c].op = "SendPlain" /\ readFrameEnded(c) /\ allWritesOk(c))
        => (readFrameReturned(c) /\ loc[c].data = req[c].msg)

\* C3: readFrame returns a payload only when the payload bytes received from
\* the channel (readLen-7 of the first read, readLen-5 of each later one)
\* have reached the length declared in bytes 5-6 of the first frame.
C3_CompleteOnlyWhenReceived ==
    \A c \in Callers :
        (req[c].op = "SendPlain" /\ readFrameReturned(c))
        => received(readsOf(c)) >= declaredLen(readsOf(c)[1].b)

\* the payload bytes the frame at position at of a message of n bytes carries
carried(n, at, w) ==
    IF at = 0 THEN Min(n, w - 7)
    ELSE Min(Max(n - (w - 7) - (at - 1) * (w - 5), 0), w - 5)
headerOf(at) == IF at = 0 THEN 7 ELSE 5

\* C4: every buffer sendFrame writes has length usbWriteReportSize, and all
\* its bytes after the header and the payload bytes it carries are 0xEE.
C4_FrameSizeAndPadding ==
    \A i \in 1..Len(trace) :
        LET e == trace[i]
            used == headerOf(e.at) + carried(Len(loc[e.c].msg), e.at, cfg.w)
        IN  (e.op = "W" /\ req[e.c].op = "SendPlain")
            => /\ Len(e.b) = cfg.w
               /\ \A j \in (used + 1)..Len(e.b) : e.b[j] = 238
C4_Witness ==
    \E i \in 1..Len(trace) :
        /\ trace[i].op = "W" /\ trace[i].at >= 1
        /\ carried(Len(loc[trace[i].c].msg), trace[i].at, cfg.w) < cfg.w - 5
        /\ trace[i].b[cfg.w] = 238

\* C5: the k-th continuation frame one sendFrame call writes carries
\* sequence byte (k-1) mod 256 at offset 4.
C5_SequenceBytes ==
    \A c \in Callers :
        req[c].op = "SendPlain" =>
            \A j \in 2..Len(writesOf(c)) : writesOf(c)[j].b[5] = (j - 2) % 256
C5_Witness ==
    \E c \in Callers :
        /\ Len(writesOf(c)) >= 258
        /\ writesOf(c)[257].b[5] = 255
        /\ writesOf(c)[258].b[5] = 0

firstMismatches(c) ==
    LET rs == readsOf(c)
    IN  /\ Len(rs) >= 1 /\ rs[1].ok /\ Len(rs[1].b) >= 7
        /\ (SubSeq(rs[1].b, 1, 4) # <<255, 0, 0, 0>> \/ rs[1].b[5] # 193)
\* C6: when the first frame readFrame reads has a channel identifier other
\* than FF 00 00 00 or a command byte other than 0xC1, readFrame fails
\* without a payload and without another Read, and SendPlain returns that
\* error and no data.
C6_MismatchRejected ==
    \A c \in Callers :
        (req[c].op = "SendPlain" /\ firstMismatches(c))
        => /\ Len(readsOf(c)) = 1
           /\ pc[c] = "done"
           /\ res[c] \in {Err("USB command ID mismatch"), Err("USB command frame mismatch")}
           /\ loc[c].data = <<>>
C6_Witness ==
    \E c \in Callers :
        /\ firstMismatches(c)
        /\ SubSeq(readsOf(c)[1].b, 1, 5) = <<255, 0, 1, 0, 193>>
        /\ pc[c] = "done"
        /\ Len(devQ) > 0

inCriticalSection(c) ==
    pc[c] \in {"sendFrame", "sendFrameCont", "readFrame", "readFrameCont", "reply",
               "blCheck", "blWrite", "blRead"}
\* C1: for concurrent callers of SendPlain, SendEncrypt and SendBootloader,
\* the Writes and Reads of one call form one contiguous block of the
\* channel's trace, and a call issues them only while it holds the mutex.
C1_NoInterleaving ==
    /\ \A i \in 1..(Len(trace) - 1) :
          trace[i].c # trace[i + 1].c
          => \A k \in (i + 1)..Len(trace) : trace[k].c # trace[i].c
    /\ \A c \in Callers : inCriticalSection(c) => mutex = c
    /\ \A c \in Callers :
          (pc[c] \in {"SendPlain", "Lock", "SendBootloader", "SendEncrypt"}) => Len(writesOf(c)) + Len(readsOf(c)) = 0
C1_Witness ==
    \E c, d \in Callers :
        /\ c # d
        /\ req[c].op = "SendEncrypt" /\ req[d].op = "SendBootloader"
        /\ pc[c] = "done" /\ pc[d] = "done"
        /\ Len(writesOf(c)) >= 2 /\ Len(readsOf(c)) >= 1
        /\ Len(writesOf(d)) >= 2 /\ Len(readsOf(d)) >= 2

wellFormedError(j) ==
    /\ j.m["error"].t = "obj"
    /\ hasKey(j.m["error"], "code") /\ j.m["error"].m["code"].t = "num"
    /\ hasKey(j.m["error"], "message") /\ j.m["error"].m["message"].t = "str"
\* C7: error mapping of the decoded reply of SendPlain and of the decrypted
\* reply of SendEncrypt - a reply object with an "error" key is never
\* returned as data: with a numeric code and a string message the call fails
\* with the device error of that code and message, otherwise with
\* 'Unexpected reply'; a reply without "error" key is returned unchanged.
C7_ErrorMapping ==
    \A c \in Callers :
        (pc[c] = "done" /\ req[c].op \in {"SendPlain", "SendEncrypt"}
            /\ loc[c].mapped # Invalid)
        => LET j == loc[c].mapped
               r == Cause(res[c])
           IN  IF hasKey(j, "error")
               THEN IF wellFormedError(j)
                    THEN r = DBBErr(j.m["error"].m["message"].s, j.m["error"].m["code"].n)
                    ELSE r = Err("Unexpected reply")
               ELSE res[c] = Ok(j)

\* C8: SendBootloader with a payload longer than 4098 bytes aborts as a fatal
\* error before any Write or Read; a payload of 4098 bytes or fewer is
\* accepted and written.
C8_SizeGuard ==
    \A c \in Callers :
        (req[c].op = "SendBootloader" /\ pc[c] \notin {"SendBootloader", "blCheck"})
        => IF Len(req[c].msg) > 4098
           THEN /\ pc[c] = "done" /\ res[c] = Panicked
                /\ Len(writesOf(c)) = 0 /\ Len(readsOf(c)) = 0
           ELSE /\ res[c] # Panicked
                /\ pc[c] = "done" => Len(writesOf(c)) >= 1
C8_Witness ==
    \E c \in Callers :
        /\ req[c].op = "SendBootloader" /\ Len(req[c].msg) = 4099
        /\ res[c] = Panicked /\ mutex = 0 /\ trace = <<>>

RECURSIVE chunks(_, _, _, _)
\* the chunks of writes lo..hi joined, each without its report ID
chunks(ws, lo, hi, windows) ==
    IF lo > hi THEN <<>>
    ELSE IF lo = hi THEN (IF windows THEN ws[lo].b ELSE Tail(ws[lo].b))
    ELSE LET mid == (lo + hi) \div 2
         IN  chunks(ws, lo, mid, windows) \o chunks(ws, mid + 1, hi, windows)
writeLoopDone(c) ==
    /\ req[c].op = "SendBootloader"
    /\ pc[c] = "blRead" \/ (pc[c] = "done" /\ res[c] \notin {Panicked, Err("write")})
\* C9: for an accepted payload, when no Write fails, SendBootloader issues
\* exactly ceil(4098 / writeSize) Writes; their chunks, report ID removed,
\* joined in order are the payload followed by zero bytes up to 4098 bytes;
\* every chunk but the last carries writeSize bytes.
C9_PaddedChunks ==
    \A c \in Callers :
        writeLoopDone(c)
        => LET ws == writesOf(c)
               id == IF cfg.windows THEN 0 ELSE 1
           IN  /\ Len(ws) = (4098 + cfg.w - 1) \div cfg.w
               /\ chunks(ws, 1, Len(ws), cfg.windows)
                     = req[c].msg \o [i \in 1..(4098 - Len(req[c].msg)) |-> 0]
               /\ \A i \in 1..(Len(ws) - 1) : Len(ws[i].b) = cfg.w + id
               /\ Len(ws[Len(ws)].b) <= cfg.w + id
               /\ ~cfg.windows => \A i \in 1..Len(ws) : ws[i].b[1] = 0
C9_Witness ==
    \E c \in Callers :
        /\ writeLoopDone(c) /\ ~cfg.windows
        /\ Len(req[c].msg) = 1
        /\ Len(writesOf(c)) = 65
        /\ Len(writesOf(c)[65].b) = 3

\* the i-th channel operation of call c failed: a Write or Read error, a
\* first read that is short or mismatches, a later read that is short
opFailed(c, i) ==
    LET ct == SelectSeq(trace, LAMBDA e : e.c = c)
        k == i - Len(writesOf(c))
    IN  \/ ~ct[i].ok
        \/ /\ ct[i].op = "R" /\ req[c].op # "SendBootloader"
           /\ IF k = 1
              THEN \/ Len(ct[i].b) < 7
                   \/ SubSeq(ct[i].b, 1, 4) # <<255, 0, 0, 0>>
                   \/ ct[i].b[5] # 193
              ELSE Len(ct[i].b) < 5
C11_LoggingTransparent ==
    \A c \in Callers :
        /\ (req[c].op = "SendEncrypt" /\ pc[c] = "done"
                /\ res[c] # Err("Failed to encrypt command"))
           => /\ Len(writesOf(c)) >= 1
              /\ writesOf(c)[1].b = sendBuf(initHeader(Len(cipherText(req[c].msg))),
                                            cipherText(req[c].msg), cfg.w)
        /\ (req[c].op = "SendPlain" /\ pc[c] = "done" /\ readFrameReturned(c))
           => res[c].k = plainResult(FALSE, loc[c].jsonResult).k

RECURSIVE redactedAs(_, _)
\* h is v with keys and containers kept and every leaf replaced by "****"
redactedAs(v, h) ==
    IF v.t = "obj"
    THEN /\ h.t = "obj"
         /\ DOMAIN h.m = DOMAIN v.m
         /\ \A k \in DOMAIN v.m : redactedAs(v.m[k], h.m[k])
    ELSE IF v.t = "arr"
    THEN /\ h.t = "arr"
         /\ Len(h.a) = Len(v.a)
         /\ \A i \in 1..Len(v.a) : redactedAs(v.a[i], h.a[i])
    ELSE h = [t |-> "str", s |-> "****"]
\* C12: redaction preserves structure and keys and replaces every leaf - the
\* command logged for a message has the key set of the message at every
\* level, every nested object and array keeps its shape, and every leaf
\* (also one inside an array) is "****"; likewise for the logged reply.
C12_RedactionKeepsShape ==
    \A c \in Callers :
        /\ (req[c].op = "SendPlain" /\ cfg.debug /\ req[c].json
                /\ pc[c] \notin {"SendPlain"})
           => /\ Len(log) >= 1
              /\ log[1].text = "Sending message"
              /\ redactedAs(req[c].cmd, log[1].msg)
        /\ (req[c].op = "SendPlain" /\ cfg.debug /\ pc[c] = "done"
                /\ loc[c].jsonResult # Invalid)
           => /\ log[Len(log)].text = "Receiving message"
              /\ redactedAs(loc[c].jsonResult, log[Len(log)].msg)

\* C13: sendFrame with an empty message issues no Write on the channel and
\* returns success (SendPlain goes on to readFrame), also on a channel whose
\* next Write would fail.
C13_EmptySendsNothing ==
    \A c \in Callers :
        (req[c].op = "SendPlain" /\ Len(req[c].msg) = 0
            /\ pc[c] \notin {"SendPlain", "Lock", "sendFrame"})
        => /\ Len(writesOf(c)) = 0
           /\ res[c] # Err("Failed to send message")
           /\ pc[c] = "readFrame" \/ Len(readsOf(c)) >= 1
C13_Witness ==
    \E c \in Callers :
        /\ req[c].op = "SendPlain" /\ Len(req[c].msg) = 0
        /\ wFail = 1
        /\ pc[c] = "done" /\ Len(writesOf(c)) = 0 /\ Len(readsOf(c)) = 1

\* sendFrame returned nil: every frame of the message was written
sendFrameDone(c) ==
    /\ req[c].op = "SendPlain"
    /\ \/ pc[c] \in {"readFrame", "readFrameCont", "reply"}
       \/ pc[c] = "done" /\ res[c] # Err("Failed to send message")
\* the number of message bytes that lie before the k-th frame
startOf(k, w) == IF k = 1 THEN 0 ELSE (w - 7) + (k - 2) * (w - 5)
\* C14: for a non-empty message of n <= 65535 bytes and write size w >= 8
\* sendFrame writes 1 + ceil(max(0, n-(w-7)) / (w-5)) frames; the first is
\* FF 00 00 00 C1, n as big-endian u16, then the first min(n, w-7) message
\* bytes; each later one is FF 00 00 00, then its sequence byte, then the
\* next up to w-5 message bytes; only the last frame carries fewer bytes
\* than its capacity, and the portions in write order make up the message.
C14_FrameCountAndLayout ==
    \A c \in Callers :
        (sendFrameDone(c) /\ Len(req[c].msg) >= 1 /\ Len(req[c].msg) <= 65535 /\ cfg.w >= 8)
        => LET ws == writesOf(c)
               n == Len(req[c].msg)
               w == cfg.w
               over == IF n > w - 7 THEN n - (w - 7) ELSE 0
           IN  /\ Len(ws) = 1 + (over + (w - 5) - 1) \div (w - 5)
               /\ SubSeq(ws[1].b, 1, 7) = <<255, 0, 0, 0, 193, n \div 256, n % 256>>
               /\ \A k \in 2..Len(ws) : SubSeq(ws[k].b, 1, 4) = <<255, 0, 0, 0>>
               /\ \A k \in 1..Len(ws) :
                     LET h == IF k = 1 THEN 7 ELSE 5
                         last == IF n < startOf(k + 1, w) THEN n ELSE startOf(k + 1, w)
                     IN  /\ k < Len(ws) => last - startOf(k, w) = w - h
                         /\ k = Len(ws) => last = n /\ last > startOf(k, w)
                         /\ SubSeq(ws[k].b, h + 1, h + last - startOf(k, w))
                               = SubSeq(req[c].msg, startOf(k, w) + 1, last)
C14_Witness ==
    \E c \in Callers :
        /\ sendFrameDone(c) /\ cfg.w = 8 /\ Len(req[c].msg) = 12
        /\ Len(writesOf(c)) = 5
        /\ writesOf(c)[1].b = <<255, 0, 0, 0, 193, 0, 12, 98>>
        /\ writesOf(c)[5].b = <<255, 0, 0, 0, 3, 108, 109, 238>>

RECURSIVE joined(_, _, _)
\* the bytes of operations lo..hi of a list of channel operations, in order
joined(ops, lo, hi) ==
    IF lo > hi THEN <<>>
    ELSE IF lo = hi THEN ops[lo].b
    ELSE LET mid == (lo + hi) \div 2
         IN  joined(ops, lo, mid) \o joined(ops, mid + 1, hi)
\* C15: SendBootloader issues its first Read only after all request chunks
\* were written, reads while fewer than 256 response bytes are accumulated
\* and not once 256 or more are, and returns the accumulated bytes (in read
\* order, only the readLen bytes each Read reported) with the trailing NUL,
\* tab, CR and LF bytes removed.
C15_BootRead ==
    \A c \in Callers :
        req[c].op = "SendBootloader"
        => LET ct == SelectSeq(trace, LAMBDA e : e.c = c)
               ws == writesOf(c)
               rs == readsOf(c)
               acc == joined(rs, 1, Len(rs))
           IN  /\ \A i \in 1..Len(ct) : ct[i].op = IF i <= Len(ws) THEN "W" ELSE "R"
               /\ Len(rs) >= 1
                  => /\ Len(ws) = (4098 + cfg.w - 1) \div cfg.w
                     /\ \A i \in 1..Len(ws) : ws[i].ok
               /\ \A k \in 1..Len(rs) : totalLen(rs, 1, k - 1) < 256
               /\ (Len(rs) >= 1 /\ rs[Len(rs)].ok)
                  => IF Len(acc) < 256
                     THEN pc[c] = "blRead"
                     ELSE /\ pc[c] = "done"
                          /\ res[c].k = "ok"
                          /\ Len(res[c].v) <= Len(acc)
                          /\ res[c].v = SubSeq(acc, 1, Len(res[c].v))
                          /\ \A i \in (Len(res[c].v) + 1)..Len(acc) : acc[i] \in {0, 9, 13, 10}
                          /\ Len(res[c].v) > 0 => acc[Len(res[c].v)] \notin {0, 9, 13, 10}
               /\ (pc[c] = "done" /\ res[c].k = "ok") => Len(acc) >= 256
C15_Witness ==
    \E c \in Callers :
        /\ req[c].op = "SendBootloader" /\ pc[c] = "done" /\ res[c].k = "ok"
        /\ Len(readsOf(c)) = 3
        /\ Len(readsOf(c)[2].b) = 64
        /\ Len(joined(readsOf(c), 1, 3)) = 320
        /\ Len(res[c].v) = 287
        /\ res[c].v[96] = 9

\* C16: readFrame accepts a continuation frame only when its channel
\* identifier is FF 00 00 00 and its sequence byte is the number of
\* continuation frames accepted before it (mod 256): a payload it returns
\* was put together from such frames only.
C16_ContinuationChecked ==
    \A c \in Callers :
        (req[c].op = "SendPlain" /\ readFrameReturned(c))
        => \A k \in 2..Len(readsOf(c)) :
              /\ SubSeq(readsOf(c)[k].b, 1, 4) = <<255, 0, 0, 0>>
              /\ readsOf(c)[k].b[5] = (k - 2) % 256

\* every Read of the call returned an error or at least the header: 7 bytes
\* for the first, 5 bytes for a later one
headersRead(c) ==
    \A k \in 1..Len(readsOf(c)) :
        readsOf(c)[k].ok => Len(readsOf(c)[k].b) >= (IF k = 1 THEN 7 ELSE 5)
\* C17: readFrame terminates when every Read returns - on a device whose
\* every Read returns an error or at least the header, readFrame issues at
\* most the declared payload length plus one Reads; continuation reads
\* that carry no payload (readLen = 5) do not keep it reading.
C17_ReadsBounded ==
    \A c \in Callers :
        (req[c].op = "SendPlain" /\ Len(readsOf(c)) >= 1 /\ readsOf(c)[1].ok
            /\ headersRead(c))
        => Len(readsOf(c)) <= declaredLen(readsOf(c)[1].b) + 1

\* C18: the channel lock is released on every exit path - once a call of
\* SendPlain, SendEncrypt or SendBootloader has ended, by success, by a
\* write, read, framing, JSON or device error or by the abort for an
\* oversize bootloader payload, it does not hold the mutex, and under fair
\* scheduling every caller waiting for the mutex eventually acquires it.
C18_LockReleased ==
    /\ [](\A c \in Callers : pc[c] \in {"done", "encReply"} => mutex # c)
    /\ [](\A c \in Callers : mutex = c => inCriticalSection(c))
    /\ \A c \in Callers : (pc[c] \in {"Lock", "SendBootloader"}) ~> (mutex = c)
C18_Witness ==
    \E c, d \in Callers :
        /\ c # d
        /\ pc[c] = "done" /\ res[c].k \in {"err", "panic"}
        /\ req[c].op \in {"SendPlain", "SendBootloader"}
        /\ Len(writesOf(c)) >= 1
        /\ mutex = d /\ Len(writesOf(d)) >= 1

\* ------------------------------------------------ the calls and Close
\* a device that answers every Write and every Read; whatever fails an
\* operation of the channel here is Close
InitClose ==
    /\ cfg = [w |-> FairWriteSize, r |-> ReadSize, windows |-> FALSE, debug |-> FALSE, echo |-> FALSE]
    /\ req \in FairRequestLists
    /\ devQ = <<devInit(hwwCID, hwwCMD, cfg.r, cfg.r), devCont(hwwCID, 0, cfg.r)>>
                \o Repeat(4 * NumCallers, devJSON(4, cfg.r))
    /\ wFail = 0
    /\ InitCalls
NextClose == NextFair \/ Close
SpecClose == InitClose /\ [][NextClose]_vars

\* the position of Close in the trace
closedAt == CHOOSE k \in 1..Len(trace) : trace[k].op = "C"
\* caller c did a Write before Close and an operation of c on the channel
\* failed after it
cutByClose(c) ==
    /\ closed
    /\ \E i \in 1..(closedAt - 1) : trace[i].c = c /\ trace[i].op = "W"
    /\ \E j \in (closedAt + 1)..Len(trace) : trace[j].c = c /\ ~trace[j].ok

\* C19: Close never closes the channel in the middle of another caller's
\* round trip: no caller that did its first Write before Close has an
\* operation on the channel fail after it, and no such call returns an error
\* of the channel.
C19_CloseOutsideRoundTrip ==
    \A c \in Callers :
        /\ ~cutByClose(c)
        /\ ~(/\ closed
             /\ \E i \in 1..(closedAt - 1) : trace[i].c = c /\ trace[i].op = "W"
             /\ pc[c] = "done"
             /\ res[c] \in {Err("read"), Err("write"), Err("Failed to send message")})

========================================================================
